---- MODULE Spec2Model ----
(***************************************************************************)
(* Model of lib/opensearch.py: the indexing run                            *)
(* (insert_metadata_to_opensearch) and the query                           *)
(* (query_imagesearch_to_opensearch) against one OpenSearch index.         *)
(***************************************************************************)
EXTENDS Integers, Sequences, FiniteSets, TLC

\* ---------------------------------------------------------------- bounds
MaxRecords == 2
MaxDocCount == 2

\* ------------------------------------------------------- program constants
KnnK == 5

\* ---------------------------------------------------------------- values
None == "None"
NoVector == [none |-> TRUE]
Runs == {1, 2}

Min(a, b) == IF a <= b THEN a ELSE b

\* ----------------------------------------------------------- int(page)
Digits == {"0", "1", "2", "3", "4", "5", "6", "7", "8", "9"}
DigitVal == ("0" :> 0) @@ ("1" :> 1) @@ ("2" :> 2) @@ ("3" :> 3) @@ ("4" :> 4)
            @@ ("5" :> 5) @@ ("6" :> 6) @@ ("7" :> 7) @@ ("8" :> 8) @@ ("9" :> 9)

RECURSIVE LStrip(_)
LStrip(s) == IF s # <<>> /\ Head(s) = " " THEN LStrip(Tail(s)) ELSE s

RECURSIVE RStrip(_)
RStrip(s) == IF s # <<>> /\ s[Len(s)] = " " THEN RStrip(SubSeq(s, 1, Len(s) - 1)) ELSE s

RECURSIVE DigitsValue(_, _)
DigitsValue(s, acc) ==
    IF s = <<>> THEN acc ELSE DigitsValue(Tail(s), 10 * acc + DigitVal[Head(s)])

\* Python int(x): an int is returned as is, a str is stripped, an optional
\* sign is read, and the rest must be a non-empty run of decimal digits;
\* anything else raises ValueError (ok = FALSE).
ToInt(page) ==
    IF page.t = "int" THEN [ok |-> TRUE, v |-> page.v]
    ELSE LET s == RStrip(LStrip(page.s))
             signed == s # <<>> /\ Head(s) \in {"+", "-"}
             body == IF signed THEN Tail(s) ELSE s
         IN  IF body = <<>> \/ \E k \in 1..Len(body) : body[k] \notin Digits
             THEN [ok |-> FALSE]
             ELSE [ok |-> TRUE,
                   v |-> IF signed /\ Head(s) = "-"
                         THEN 0 - DigitsValue(body, 0) ELSE DigitsValue(body, 0)]

\* ------------------------------------------------ base64.b64encode(...)
Alphabet ==
    << "A","B","C","D","E","F","G","H","I","J","K","L","M","N","O","P",
       "Q","R","S","T","U","V","W","X","Y","Z","a","b","c","d","e","f",
       "g","h","i","j","k","l","m","n","o","p","q","r","s","t","u","v",
       "w","x","y","z","0","1","2","3","4","5","6","7","8","9","+","/" >>

RECURSIVE B64Encode(_)
B64Encode(b) ==
    IF b = <<>> THEN <<>>
    ELSE LET n  == Min(Len(b), 3)
             b1 == b[1]
             b2 == IF n >= 2 THEN b[2] ELSE 0
             b3 == IF n >= 3 THEN b[3] ELSE 0
             c1 == Alphabet[(b1 \div 4) + 1]
             c2 == Alphabet[((b1 % 4) * 16 + (b2 \div 16)) + 1]
             c3 == IF n >= 2 THEN Alphabet[((b2 % 16) * 4 + (b3 \div 64)) + 1] ELSE "="
             c4 == IF n >= 3 THEN Alphabet[(b3 % 64) + 1] ELSE "="
         IN  <<c1, c2, c3, c4>> \o B64Encode(SubSeq(b, n + 1, Len(b)))

\* ------------------------------------------------------ the environment
\* Entries the metadata file can hold: key (image path), page, image_text, type.
Entries ==
    { [key |-> "p1.png",   item |-> [page |-> [t |-> "int", v |-> 1],
                                     image_text |-> "cover", type |-> "main"]],
      [key |-> "p1_s1.png", item |-> [page |-> [t |-> "str", s |-> <<"1", "2">>],
                                     image_text |-> "chart", type |-> "sub"]],
      [key |-> "p2.png",   item |-> [page |-> [t |-> "str", s |-> <<" ", "7">>],
                                     image_text |-> "", type |-> "main"]],
      [key |-> "p2_s1.png", item |-> [page |-> [t |-> "str", s |-> <<"i", "v">>],
                                     image_text |-> "chart", type |-> "sub"]] }

\* Bytes of the image files on disk.
FileBytes ==
    ("p1.png" :> <<137, 80, 78>>) @@ ("p1_s1.png" :> <<255>>) @@
    ("p2.png" :> <<0, 16>>) @@ ("p2_s1.png" :> <<77, 97, 110, 33>>)

\* Contents of the metadata file: a mapping in insertion order, keys unique.
Stores ==
    UNION { { s \in [1..n -> Entries] :
                \A a, b \in 1..n : a # b => s[a].key # s[b].key } : n \in 0..MaxRecords }

\* bedrock.get_text_vector(session, text): a vector, or null when unavailable.
GetTextVector(text) == { NoVector, [vec |-> text] }

QueryTypes == {"imagesearch", "contentsearch", "textsearch"}
Endpoints == {None, "https://aoss.example"}
IndexNames == {None, "pdf-index"}
QueryTexts == {"chart"}

\* ------------------------------------------------------------ the state
VARIABLES
    store,        \* contents of the metadata file
    index,        \* documents held by the index, in arrival order (position = _id)
    propagated,   \* the index's data-access policy has propagated
    rejected,     \* keys of the writes the index rejected before propagation
    pc,           \* position of each indexing run
    metadatas,    \* the mapping each run loaded (line 24)
    i,            \* number of records each run has finished
    client,       \* the OpenSearch client of each run
    slept,        \* time.sleep(45) has returned in each run
    err,          \* exception that ended each run
    requests,     \* client.index requests issued by each run
    qpc,          \* position of the query call
    qargs,        \* arguments of the query call
    qcalls,       \* external calls the query has made
    vector_query, \* embedding of the query text
    query_body,   \* body of the search request
    response,     \* response of client.search
    result,       \* the returned pair (images, contents)
    qerr          \* exception that ended the query

runVars == <<pc, metadatas, i, client, slept, err, requests>>
queryVars == <<qpc, qargs, qcalls, vector_query, query_body, response, result, qerr>>
indexVars == <<index, propagated, rejected>>
vars == <<store, index, propagated, rejected, pc, metadatas, i, client, slept, err,
          requests, qpc, qargs, qcalls, vector_query, query_body, response, result, qerr>>

Unset == [unset |-> TRUE]

InitIndex ==
    /\ store \in Stores
    /\ index = <<>>
    /\ propagated \in BOOLEAN
    /\ rejected = {}
    /\ metadatas = [r \in Runs |-> <<>>]
    /\ i = [r \in Runs |-> 0]
    /\ client = [r \in Runs |-> None]
    /\ slept = [r \in Runs |-> FALSE]
    /\ err = [r \in Runs |-> None]
    /\ requests = [r \in Runs |-> 0]
    /\ qargs = Unset
    /\ qcalls = {}
    /\ vector_query = Unset
    /\ query_body = Unset
    /\ response = Unset
    /\ result = Unset
    /\ qerr = None

\* One indexing run and one query against the index.
Init ==
    /\ InitIndex
    /\ pc = [r \in Runs |-> IF r = 1 THEN "start" ELSE "off"]
    /\ qpc = "idle"

\* Two indexing runs over the same metadata file against the same index.
InitTwo ==
    /\ InitIndex
    /\ pc = [r \in Runs |-> "start"]
    /\ qpc = "off"

\* ------------------------------------------ insert_metadata_to_opensearch
LoadMetadata(r) ==
    /\ pc[r] = "start"
    /\ metadatas' = [metadatas EXCEPT ![r] = store]
    /\ pc' = [pc EXCEPT ![r] = "loaded"]
    /\ UNCHANGED <<store, indexVars, i, client, slept, err, requests, queryVars>>

GetCredentials(r) ==
    /\ pc[r] = "loaded"
    /\ pc' = [pc EXCEPT ![r] = "authed"]
    /\ UNCHANGED <<store, indexVars, metadatas, i, client, slept, err, requests, queryVars>>

CreateClient(r) ==
    /\ pc[r] = "authed"
    /\ client' = [client EXCEPT ![r] = "created"]
    /\ pc' = [pc EXCEPT ![r] = "client"]
    /\ UNCHANGED <<store, indexVars, metadatas, i, slept, err, requests, queryVars>>

SleepSkipped(r) ==
    /\ pc[r] = "client"
    /\ pc' = [pc EXCEPT ![r] = "loop"]
    /\ UNCHANGED <<store, indexVars, metadatas, i, client, slept, err, requests, queryVars>>

Sleep(r) ==
    /\ pc[r] = "client"
    /\ slept' = [slept EXCEPT ![r] = TRUE]
    /\ pc' = [pc EXCEPT ![r] = "loop"]
    /\ UNCHANGED <<store, indexVars, metadatas, i, client, err, requests, queryVars>>

HasNext(r) == pc[r] = "loop" /\ i[r] < Len(metadatas[r])
Current(r) == metadatas[r][i[r] + 1]

DocumentTextFromKey(file_name, item, image_data, embedding) ==
    [page_number |-> ToInt(item.page).v, image_file_name |-> file_name,
     text |-> file_name, image_type |-> item.type,
     image |-> B64Encode(image_data)]

Document(file_name, item, image_data, embedding) ==
    IF embedding # NoVector
    THEN [page_number |-> ToInt(item.page).v, image_file_name |-> file_name,
          text |-> item.image_text, image_type |-> item.type,
          image |-> B64Encode(image_data), content_vector |-> embedding]
    ELSE [page_number |-> ToInt(item.page).v, image_file_name |-> file_name,
          text |-> item.image_text, image_type |-> item.type,
          image |-> B64Encode(image_data)]

Raise(r, e) ==
    /\ err' = [err EXCEPT ![r] = e]
    /\ pc' = [pc EXCEPT ![r] = "failed"]

\* open(item_image_file_name, "rb") raises: the file is missing or unreadable.
ReadImageFails(r) ==
    /\ HasNext(r)
    /\ Raise(r, "OSError")
    /\ UNCHANGED <<store, indexVars, metadatas, i, client, slept, requests, queryVars>>

\* int(item_page_number) raises while the document is assembled.
PageInvalid(r) ==
    /\ HasNext(r)
    /\ ~ToInt(Current(r).item.page).ok
    /\ Raise(r, "ValueError")
    /\ UNCHANGED <<store, indexVars, metadatas, i, client, slept, requests, queryVars>>

\* client.index(index, body) without an id: the index stores a new document.
IndexUpsert(idx, document) ==
    IF \E j \in 1..Len(idx) : idx[j].image_file_name = document.image_file_name
    THEN [j \in 1..Len(idx) |->
            IF idx[j].image_file_name = document.image_file_name THEN document ELSE idx[j]]
    ELSE Append(idx, document)

IndexWrite(idx, document) == Append(idx, document)

WriteFailsSkipped(r) ==
    /\ HasNext(r)
    /\ ToInt(Current(r).item.page).ok
    /\ requests' = [requests EXCEPT ![r] = @ + 1]
    /\ rejected' = IF propagated THEN rejected ELSE rejected \cup {Current(r).key}
    /\ i' = [i EXCEPT ![r] = @ + 1]
    /\ UNCHANGED <<store, index, propagated, pc, metadatas, client, slept, err, queryVars>>

\* The write request is issued and the index rejects it (before propagation
\* always, afterwards possibly): client.index raises.
WriteFails(r) ==
    /\ HasNext(r)
    /\ ToInt(Current(r).item.page).ok
    /\ requests' = [requests EXCEPT ![r] = @ + 1]
    /\ rejected' = IF propagated THEN rejected ELSE rejected \cup {Current(r).key}
    /\ Raise(r, "TransportError")
    /\ UNCHANGED <<store, index, propagated, metadatas, i, client, slept, queryVars>>

\* One iteration of the loop that runs to its end: the image is read, the
\* text embedded, the document assembled and written.
IndexDocument(r) ==
    /\ HasNext(r)
    /\ ToInt(Current(r).item.page).ok
    /\ propagated
    /\ \E embedding \in GetTextVector(Current(r).item.image_text) :
         index' = IndexWrite(index, Document(Current(r).key, Current(r).item,
                                             FileBytes[Current(r).key], embedding))
    /\ requests' = [requests EXCEPT ![r] = @ + 1]
    /\ i' = [i EXCEPT ![r] = @ + 1]
    /\ UNCHANGED <<store, propagated, rejected, pc, metadatas, client, slept, err, queryVars>>

Finish(r) ==
    /\ pc[r] = "loop"
    /\ i[r] = Len(metadatas[r])
    /\ pc' = [pc EXCEPT ![r] = "done"]
    /\ UNCHANGED <<store, indexVars, metadatas, i, client, slept, err, requests, queryVars>>

\* The index's access policy finishes propagating.
Propagate ==
    /\ ~propagated
    /\ propagated' = TRUE
    /\ UNCHANGED <<store, index, rejected, runVars, queryVars>>

\* ---------------------------------------- query_imagesearch_to_opensearch
QueryCall ==
    /\ qpc = "idle"
    /\ \E query \in QueryTexts, query_type \in QueryTypes, doc_count \in 1..MaxDocCount,
          opensearch_endpoint \in Endpoints, index_name \in IndexNames :
         qargs' = [query |-> query, query_type |-> query_type, doc_count |-> doc_count,
                   opensearch_endpoint |-> opensearch_endpoint, index_name |-> index_name]
    /\ qpc' = "check"
    /\ UNCHANGED <<store, indexVars, runVars, qcalls, vector_query, query_body,
                   response, result, qerr>>

ConfigMissingEndpointOnly(a) == a.opensearch_endpoint = None

ConfigMissing(a) == a.opensearch_endpoint = None \/ a.index_name = None

\* Lines 106-108: the early return.
QueryNotConfigured ==
    /\ qpc = "check"
    /\ ConfigMissing(qargs)
    /\ result' = [images |-> <<>>, contents |-> <<>>]
    /\ qpc' = "returned"
    /\ UNCHANGED <<store, indexVars, runVars, qargs, qcalls, vector_query, query_body,
                   response, qerr>>

QueryGetCredentials ==
    /\ qpc = "check"
    /\ ~ConfigMissing(qargs)
    /\ qcalls' = qcalls \cup {"credentials"}
    /\ qpc' = "authed"
    /\ UNCHANGED <<store, indexVars, runVars, qargs, vector_query, query_body,
                   response, result, qerr>>

QueryCreateClient ==
    /\ qpc = "authed"
    /\ qpc' = "client"
    /\ UNCHANGED <<store, indexVars, runVars, qargs, qcalls, vector_query, query_body,
                   response, result, qerr>>

\* Lines 134-135: the query text is embedded and len(vector_query) is logged;
\* len(None) raises TypeError.
QueryEmbed ==
    /\ qpc = "client"
    /\ qcalls' = qcalls \cup {"embedding"}
    /\ \E v \in GetTextVector(qargs.query) :
         /\ vector_query' = v
         /\ IF v = NoVector
            THEN qerr' = "TypeError" /\ qpc' = "raised"
            ELSE qerr' = qerr /\ qpc' = "embedded"
    /\ UNCHANGED <<store, indexVars, runVars, qargs, query_body, response, result>>

Knn(vector) == [knn |-> [content_vector |-> [vector |-> vector, k |-> KnnK]]]
Term(value) == [term |-> [image_type |-> value]]

QueryBodySwapped(query_type, doc_count, vector) ==
    [size |-> doc_count,
     _source |-> [excludes |-> <<"content_vector">>],
     query |-> [bool |-> [must |->
        << Term(IF query_type = "imagesearch" THEN "main" ELSE "sub"), Knn(vector) >>]]]

QueryBodyNoKnn(query_type, doc_count, vector) ==
    [size |-> doc_count,
     _source |-> [excludes |-> <<"content_vector">>],
     query |-> [bool |-> [must |->
        << Term(IF query_type = "imagesearch" THEN "sub" ELSE "main") >>]]]

\* Lines 137-184.
QueryBody(query_type, doc_count, vector) ==
    IF query_type = "imagesearch"
    THEN [size |-> doc_count,
          _source |-> [excludes |-> <<"content_vector">>],
          query |-> [bool |-> [must |-> << Term("sub"), Knn(vector) >>]]]
    ELSE [size |-> doc_count,
          _source |-> [excludes |-> <<"content_vector">>],
          query |-> [bool |-> [must |-> << Term("main"), Knn(vector) >>]]]

QueryBuild ==
    /\ qpc = "embedded"
    /\ query_body' = QueryBody(qargs.query_type, qargs.doc_count, vector_query)
    /\ qpc' = "built"
    /\ UNCHANGED <<store, indexVars, runVars, qargs, qcalls, vector_query,
                   response, result, qerr>>

\* What the index does with a search request: a document matches a term
\* clause when it has the field with that value, and a knn clause when it has
\* the vector field.
Matches(doc, clause) ==
    IF "term" \in DOMAIN clause
    THEN \A f \in DOMAIN clause.term : f \in DOMAIN doc /\ doc[f] = clause.term[f]
    ELSE \A f \in DOMAIN clause.knn : f \in DOMAIN doc

MatchesAll(doc, must) == \A c \in 1..Len(must) : Matches(doc, must[c])

Source(doc, excludes) ==
    [f \in DOMAIN doc \ {excludes[e] : e \in 1..Len(excludes)} |-> doc[f]]

\* The well-formed responses: at most `size` matching documents (and at most
\* k per knn clause), in the index's relevance order.
SearchHits(idx, body) ==
    LET must == body.query.bool.must
        M == {j \in 1..Len(idx) : MatchesAll(idx[j], must)}
        n == Min(Min(body.size, KnnK), Cardinality(M))
        orders == {h \in [1..n -> M] : \A a, b \in 1..n : a # b => h[a] # h[b]}
    IN  { [p \in 1..n |-> [_id |-> h[p], _source |-> Source(idx[h[p]], body._source.excludes)]]
          : h \in orders }

\* Responses without a recognizable hit structure.
Malformed == { [error |-> "bad request"], [hits |-> [total |-> 0]] }

QuerySearch ==
    /\ qpc = "built"
    /\ qcalls' = qcalls \cup {"search"}
    /\ \/ \E hits \in SearchHits(index, query_body) : response' = [hits |-> [hits |-> hits]]
       \/ response' \in Malformed
    /\ qpc' = "searched"
    /\ UNCHANGED <<store, indexVars, runVars, qargs, vector_query, query_body, result, qerr>>

Recognized(resp) == "hits" \in DOMAIN resp /\ "hits" \in DOMAIN resp.hits

ProcessResponseShort(resp) ==
    IF Recognized(resp)
    THEN [images   |-> [p \in 1..Len(resp.hits.hits) |-> resp.hits.hits[p]._source.image],
          contents |-> [p \in 1..(Len(resp.hits.hits) - 1) |-> resp.hits.hits[p]._source.text]]
    ELSE [images |-> <<>>, contents |-> <<>>]

\* Lines 194-210.
ProcessResponse(resp) ==
    IF Recognized(resp)
    THEN [images   |-> [p \in 1..Len(resp.hits.hits) |-> resp.hits.hits[p]._source.image],
          contents |-> [p \in 1..Len(resp.hits.hits) |-> resp.hits.hits[p]._source.text]]
    ELSE [images |-> <<>>, contents |-> <<>>]

QueryReturn ==
    /\ qpc = "searched"
    /\ result' = ProcessResponse(response)
    /\ qpc' = "returned"
    /\ UNCHANGED <<store, indexVars, runVars, qargs, qcalls, vector_query, query_body,
                   response, qerr>>

\* ------------------------------------------------------- specifications
RunNext ==
    \E r \in Runs :
        \/ LoadMetadata(r)
        \/ GetCredentials(r)
        \/ CreateClient(r)
        \/ Sleep(r)
        \/ ReadImageFails(r)
        \/ PageInvalid(r)
        \/ WriteFails(r)
        \/ IndexDocument(r)
        \/ Finish(r)

QueryNext ==
    \/ QueryCall
    \/ QueryNotConfigured
    \/ QueryGetCredentials
    \/ QueryCreateClient
    \/ QueryEmbed
    \/ QueryBuild
    \/ QuerySearch
    \/ QueryReturn

Next == RunNext \/ QueryNext \/ Propagate

NextTwo == RunNext \/ Propagate

Spec == Init /\ [][Next]_vars

SpecTwo == InitTwo /\ [][NextTwo]_vars

\* ------------------------------------------------------------ properties
Empty == [images |-> <<>>, contents |-> <<>>]
Terminated(r) == pc[r] \in {"done", "failed"}
KeysOf(idx) == {idx[j].image_file_name : j \in 1..Len(idx)}
DocsFor(idx, key) == {j \in 1..Len(idx) : idx[j].image_file_name = key}
ExpectedType(query_type) == IF query_type = "imagesearch" THEN "sub" ELSE "main"

\* C1: a run issues an index write request only after its settling wait has
\* returned, and the wait is taken after the client was created and before
\* the first request.
C1_SleepBeforeFirstWrite ==
    [][\A r \in Runs :
         /\ requests'[r] # requests[r] => slept[r]
         /\ (slept'[r] /\ ~slept[r]) => (client[r] = "created" /\ requests[r] = 0)]_vars

C1_Witness == slept[1] /\ requests[1] > 0 /\ Len(index) > 0

\* C2: once the propagation window has ended and the run is over, every
\* record whose write the index rejected inside the window has its document
\* in the index.
C2_RejectedWritesEndUpIndexed ==
    (propagated /\ Terminated(1)) => rejected \subseteq KeysOf(index)

\* C3: the query's type filter is image_type = "sub" for query_type
\* "imagesearch" and image_type = "main" for every other query_type, and
\* every returned hit has that image_type.
C3_TypeFilter ==
    /\ query_body # Unset =>
         LET must == query_body.query.bool.must
         IN  /\ \E c \in 1..Len(must) : must[c] = Term(ExpectedType(qargs.query_type))
             /\ \A c \in 1..Len(must) :
                  "term" \in DOMAIN must[c] => must[c] = Term(ExpectedType(qargs.query_type))
    /\ Recognized(response) =>
         \A p \in 1..Len(response.hits.hits) :
            response.hits.hits[p]._source.image_type = ExpectedType(qargs.query_type)

C3_Witness ==
    /\ qpc = "returned"
    /\ qargs.query_type = "textsearch"
    /\ Recognized(response)
    /\ Len(response.hits.hits) > 0
    /\ \E j \in 1..Len(index) : index[j].image_type = "sub"

\* C4: with the endpoint or the index name missing the query returns two
\* empty sequences, raises nothing, and makes no credential lookup, embedding
\* call or search request.
C4_NotConfiguredReturnsEmpty ==
    (qpc # "idle" /\ (qargs.opensearch_endpoint = None \/ qargs.index_name = None)) =>
        /\ qcalls = {}
        /\ qerr = None
        /\ qpc \in {"check", "returned"}
        /\ qpc = "returned" => result = Empty

C4_Witness ==
    /\ qpc = "returned"
    /\ qargs.index_name = None
    /\ qargs.opensearch_endpoint # None
    /\ Len(index) > 0

\* C5: a response without hits.hits gives two empty sequences; otherwise the
\* two sequences have one element per hit, the i-th image and the i-th
\* content both taken from the i-th hit's document.
C5_ParallelResults ==
    (qpc = "returned" /\ qcalls # {}) =>
        IF Recognized(response)
        THEN /\ Len(result.images) = Len(response.hits.hits)
             /\ Len(result.contents) = Len(response.hits.hits)
             /\ \A p \in 1..Len(response.hits.hits) :
                  /\ result.images[p] = index[response.hits.hits[p]._id].image
                  /\ result.contents[p] = index[response.hits.hits[p]._id].text
        ELSE result = Empty

C5_Witness ==
    /\ qpc = "returned"
    /\ Recognized(response)
    /\ Len(response.hits.hits) = 2
    /\ response.hits.hits[1]._id > response.hits.hits[2]._id
    /\ result.contents[1] # result.contents[2]

\* C6: a null embedding of the query text does not make the query raise.
C6_NullVectorNotRaised ==
    vector_query = NoVector => (qerr = None /\ qpc # "raised")

\* C7: a document indexed after a null embedding has exactly the fields
\* page_number, image_file_name, text, image_type and image, is never among
\* the hits of the query, and matches a filter on its image_type alone.
C7_VectorlessDocument ==
    \A j \in 1..Len(index) :
        "content_vector" \notin DOMAIN index[j] =>
            /\ DOMAIN index[j] = {"page_number", "image_file_name", "text",
                                   "image_type", "image"}
            /\ Recognized(response) =>
                 \A p \in 1..Len(response.hits.hits) : response.hits.hits[p]._id # j
            /\ MatchesAll(index[j], <<Term(index[j].image_type)>>)

C7_Witness ==
    /\ pc[1] = "done"
    /\ Len(index) = 2
    /\ "content_vector" \notin DOMAIN index[1]
    /\ "content_vector" \in DOMAIN index[2]
    /\ index[1].image_type = index[2].image_type
    /\ qpc = "returned"
    /\ Recognized(response)
    /\ Len(response.hits.hits) = 1

\* C8: after a run alone on an initially empty index has completed, there is
\* one write request and exactly one document per metadata entry, with the
\* entry's page as integer, key, image_text and type.
C8_OneDocumentPerEntry ==
    (pc[1] = "done" /\ pc[2] = "off") =>
        /\ Len(index) = Len(store)
        /\ requests[1] = Len(store)
        /\ \A e \in 1..Len(store) :
             /\ Cardinality(DocsFor(index, store[e].key)) = 1
             /\ \A j \in DocsFor(index, store[e].key) :
                  /\ index[j].page_number = ToInt(store[e].item.page).v
                  /\ index[j].text = store[e].item.image_text
                  /\ index[j].image_type = store[e].item.type

C8_Witness ==
    /\ pc[1] = "done"
    /\ pc[2] = "off"
    /\ Len(store) = 2
    /\ \E j \in 1..Len(index) :
         index[j].image_file_name = "p1_s1.png" /\ index[j].page_number = 12

\* C9: a run alone writes documents in store order; a failure ends the run
\* with the index holding exactly the documents of the records before the
\* failing one, and nothing is written or requested afterwards.
C9_OrderedAndFatal ==
    /\ [](pc[2] = "off" =>
            /\ Len(index) = i[1]
            /\ \A j \in 1..Len(index) : index[j].image_file_name = metadatas[1][j].key)
    /\ [][pc[1] = "failed" =>
            (pc'[1] = "failed" /\ index' = index /\ requests' = requests /\ i' = i)]_vars

C9_Witness ==
    /\ pc[1] = "failed"
    /\ pc[2] = "off"
    /\ i[1] = 1
    /\ Len(store) = 2
    /\ err[1] = "TransportError"

\* C10: every accepted write adds a document, so two completed runs over the
\* same metadata file leave two documents per image path.
C10_NoDeduplication ==
    /\ Len(index) = i[1] + i[2]
    /\ (pc[1] = "done" /\ pc[2] = "done") =>
          \A e \in 1..Len(store) : Cardinality(DocsFor(index, store[e].key)) = 2

C10_Witness ==
    /\ pc[1] = "done"
    /\ pc[2] = "done"
    /\ Len(store) = 2
    /\ index[1].image_file_name = index[2].image_file_name
====
